---- MODULE Spec2Model ----
(***************************************************************************)
(* Model of the GDACS data crawler: the XML feed crawler                   *)
(* (src/src/data_crawler.py), the configuration loader                     *)
(* (src/src/configs/config_parser.py), the PostGIS writer                  *)
(* (src/src/db/db.py) and the orchestrator loop (src/src/main.py).         *)
(*                                                                         *)
(* Python values are modelled as follows.                                  *)
(*   str            a tuple of one-character strings, <<"1", " ", "2">>    *)
(*   Optional[str]  [some |-> BOOLEAN, s |-> str]; None is NoneText        *)
(*   a call         a record with a field exc: "None" when the call        *)
(*                  returned, the exception's class name when it raised    *)
(***************************************************************************)
EXTENDS Integers, Sequences, FiniteSets, TLC

(***************************************************************************)
(* Bounds of the model.                                                    *)
(***************************************************************************)
\* items of a feed document given to the XML crawler on its own
MaxItems == 3

(***************************************************************************)
(* Strings.                                                                *)
(***************************************************************************)
NoneText == [some |-> FALSE, s |-> <<>>]

Text(s) == [some |-> TRUE, s |-> s]

\* Python truthiness of an Optional[str]: None and "" are falsy.
Truthy(t) == t.some /\ t.s # <<>>

IsSpace(c) == c = " "

IsDigit(c) == c \in {"0", "1", "2", "3", "4", "5", "6", "7", "8", "9"}

DigitVal(c) ==
    CASE c = "0" -> 0 [] c = "1" -> 1 [] c = "2" -> 2 [] c = "3" -> 3
      [] c = "4" -> 4 [] c = "5" -> 5 [] c = "6" -> 6 [] c = "7" -> 7
      [] c = "8" -> 8 [] c = "9" -> 9

\* str.split() with no argument: the maximal runs of non-blank characters,
\* no empty token.  cur is the token being read, acc the tokens read.
RECURSIVE SplitFrom(_, _, _, _)
SplitFrom(s, i, cur, acc) ==
    IF i > Len(s)
    THEN IF cur = <<>> THEN acc ELSE Append(acc, cur)
    ELSE IF IsSpace(s[i])
         THEN SplitFrom(s, i + 1, <<>>, IF cur = <<>> THEN acc ELSE Append(acc, cur))
         ELSE SplitFrom(s, i + 1, Append(cur, s[i]), acc)

Split(s) == SplitFrom(s, 1, <<>>, <<>>)

RECURSIVE DigitsValue(_, _, _)
DigitsValue(s, i, acc) ==
    IF i > Len(s) THEN acc ELSE DigitsValue(s, i + 1, 10 * acc + DigitVal(s[i]))

AllDigits(s) == s # <<>> /\ \A i \in 1..Len(s) : IsDigit(s[i])

\* float(token) on the tokens of the model's alphabet: an optional sign
\* followed by decimal digits is a number, anything else raises ValueError.
IsNumber(tok) ==
    \/ AllDigits(tok)
    \/ Len(tok) > 1 /\ tok[1] \in {"-", "+"} /\ AllDigits(Tail(tok))

Float(tok) ==
    IF tok[1] = "-" THEN 0 - DigitsValue(Tail(tok), 1, 0)
    ELSE IF tok[1] = "+" THEN DigitsValue(Tail(tok), 1, 0)
    ELSE DigitsValue(tok, 1, 0)

(***************************************************************************)
(* GDACSXmlDtaCrawler (src/src/data_crawler.py).                           *)
(*                                                                         *)
(* An <item> element of the feed is                                        *)
(*   [absent |-> the child elements and attributes it lacks,               *)
(*    title  |-> the text of <title>, point |-> the text of <georss:point>]*)
(* The text of an element that is present but empty is None.  The text of  *)
(* the other children is opaque and is not carried.                        *)
(***************************************************************************)
Lookup(elem, attr, guarded) == [elem |-> elem, attr |-> attr, guarded |-> guarded]

\* The accesses of extract_event_information in source order.  attr = ""
\* reads the element's text, anything else reads attrib[attr]; a guarded
\* access sits under "if <elem> is not None".
Lookups ==
    << Lookup("title", "", FALSE), Lookup("description", "", FALSE),
       Lookup("link", "", FALSE), Lookup("pubDate", "", FALSE),
       Lookup("gdacs:severity", "unit", TRUE), Lookup("gdacs:severity", "value", TRUE),
       Lookup("gdacs:severity", "", TRUE),
       Lookup("gdacs:population", "unit", TRUE), Lookup("gdacs:population", "value", TRUE),
       Lookup("gdacs:population", "", TRUE),
       Lookup("gdacs:dateadded", "", FALSE), Lookup("gdacs:datemodified", "", FALSE),
       Lookup("gdacs:iscurrent", "", FALSE), Lookup("gdacs:fromdate", "", FALSE),
       Lookup("gdacs:todate", "", FALSE), Lookup("gdacs:durationinweek", "", FALSE),
       Lookup("gdacs:year", "", FALSE), Lookup("dc:subject", "", FALSE),
       Lookup("guid", "isPermaLink", FALSE), Lookup("gdacs:bbox", "", FALSE),
       Lookup("georss:point", "", FALSE), Lookup("gdacs:eventtype", "", FALSE),
       Lookup("gdacs:alertlevel", "", FALSE), Lookup("gdacs:alertscore", "", FALSE),
       Lookup("gdacs:episodealertlevel", "", FALSE),
       Lookup("gdacs:episodealertscore", "", FALSE),
       Lookup("gdacs:eventid", "", FALSE), Lookup("gdacs:episodeid", "", FALSE),
       Lookup("gdacs:calculationtype", "", FALSE), Lookup("gdacs:severity", "", FALSE),
       Lookup("gdacs:population", "", FALSE), Lookup("gdacs:vulnerability", "", FALSE),
       Lookup("gdacs:country", "", FALSE) >>

\* The name under which an item's absent set holds a missing attribute.
AttrName(elem, attr) == <<elem, attr>>

LookupExc_skip_absent(event, l) ==
    IF <<l.elem>> \in event.absent
    THEN "None"
    ELSE IF l.attr # "" /\ AttrName(l.elem, l.attr) \in event.absent
         THEN "KeyError"
         ELSE "None"

\* One access: event.find(elem) is None when the element is absent, and
\* None.text / None.attrib raises AttributeError; attrib[attr] raises
\* KeyError when the element lacks the attribute.
LookupExc(event, l) ==
    IF <<l.elem>> \in event.absent
    THEN IF l.guarded THEN "None" ELSE "AttributeError"
    ELSE IF l.attr # "" /\ AttrName(l.elem, l.attr) \in event.absent
         THEN "KeyError"
         ELSE "None"

RECURSIVE FirstLookupExc(_, _)
FirstLookupExc(event, i) ==
    IF i > Len(Lookups) THEN "None"
    ELSE IF LookupExc(event, Lookups[i]) # "None"
         THEN LookupExc(event, Lookups[i])
         ELSE FirstLookupExc(event, i + 1)

\* extract_event_information(event): the flat mapping of the item's fields,
\* or the first failing access.
extract_event_information(event) ==
    [exc |-> FirstLookupExc(event, 1),
     event_dict |-> [Title |-> event.title, GeoRSSPoint |-> event.point]]

Point_latitude_first(longitude, latitude) ==
    [type |-> "Point", coordinates |-> <<latitude, longitude>>]

Point(longitude, latitude) ==
    [type |-> "Point", coordinates |-> <<longitude, latitude>>]

Feature(id, properties, geometry) ==
    [id |-> id, properties |-> properties, geometry |-> geometry]

\* A record of the logging module.  rendered is whether msg % args could be
\* formatted; the handler drops a record it cannot format and reports the
\* formatting error on stderr instead.
\* exc is the exception the message reports ("" when it reports none), item
\* the item title passed as argument (None when there is none).
LogRecord(level, msg, exc, item, rendered) ==
    [level |-> level, msg |-> msg, exc |-> exc, item |-> item, rendered |-> rendered]

\* "latitude, longitude = map(float, text.split())": every token is
\* converted as it is unpacked, and the unpacking takes exactly two.
UnpackTwoFloats(toks) ==
    IF Len(toks) = 2 /\ IsNumber(toks[1]) /\ IsNumber(toks[2])
    THEN [exc |-> "None", latitude |-> Float(toks[1]), longitude |-> Float(toks[2])]
    ELSE [exc |-> "ValueError", latitude |-> 0, longitude |-> 0]

\* create_geojson_feature(event_dict, feature_id).  ret is <<feature>>, or
\* <<>> for None.  The warning's format is "%d" and its argument the title
\* (a str or None), so the record cannot be rendered.
create_geojson_feature(event_dict, feature_id) ==
    IF Truthy(event_dict.GeoRSSPoint)
    THEN LET u == UnpackTwoFloats(Split(event_dict.GeoRSSPoint.s))
         IN  IF u.exc # "None"
             THEN [exc |-> u.exc, ret |-> <<>>, log |-> <<>>]
             ELSE [exc |-> "None",
                   ret |-> << Feature(feature_id, event_dict,
                                      Point(u.longitude, u.latitude)) >>,
                   log |-> <<>>]
    ELSE [exc |-> "None", ret |-> <<>>,
          log |-> << LogRecord("WARNING", "GeoRSS Point not found for the following item",
                               "", event_dict.Title, FALSE) >>]

NextFeatureId_every_item(feature_id_counter, ret) == feature_id_counter + 1

\* "if feature: feature_id_counter += 1": the counter after an item for
\* which create_geojson_feature returned ret.
NextFeatureId(feature_id_counter, ret) ==
    IF ret # <<>> THEN feature_id_counter + 1 ELSE feature_id_counter

\* The loop of get_data from item i on.
RECURSIVE GetDataLoop(_, _, _, _, _)
GetDataLoop(items, i, feature_id_counter, features, log) ==
    IF i > Len(items)
    THEN [exc |-> "None", features |-> features, log |-> log]
    ELSE LET e == extract_event_information(items[i])
             c == create_geojson_feature(e.event_dict, feature_id_counter)
         IN  IF e.exc # "None"
             THEN [exc |-> e.exc, features |-> <<>>, log |-> log]
             ELSE IF c.exc # "None"
                  THEN [exc |-> c.exc, features |-> <<>>, log |-> log]
                  ELSE GetDataLoop(items, i + 1,
                                   NextFeatureId(feature_id_counter, c.ret),
                                   features \o c.ret, log \o c.log)

\* parse_xml_tree(): requests.get raises when the host cannot be reached and
\* ET.fromstring raises ParseError on a body that is not well-formed XML.
parse_xml_tree(doc) ==
    IF doc.fetch # "None" THEN [exc |-> doc.fetch, items |-> <<>>]
    ELSE IF ~doc.wellformed THEN [exc |-> "ParseError", items |-> <<>>]
    ELSE [exc |-> "None", items |-> doc.items]

\* GDACSXmlDtaCrawler.get_data() on the document the URL serves.
XmlGetData(doc) ==
    LET tree == parse_xml_tree(doc)
    IN  IF tree.exc # "None"
        THEN [exc |-> tree.exc, features |-> <<>>, log |-> <<>>]
        ELSE GetDataLoop(tree.items, 1, 1, <<>>, <<>>)

(***************************************************************************)
(* Configuration (src/src/configs/config_parser.py).                       *)
(*                                                                         *)
(* A YAML value is a node: Null (Python None), Str, List, or Map(f) with f *)
(* a function from keys to nodes (a Python dict).                          *)
(***************************************************************************)
Null == [t |-> "null"]

Str(x) == [t |-> "str", s |-> x]

List == [t |-> "list"]

Map(f) == [t |-> "map", m |-> f]

EmptyMap == Map(<<>>)

IsMap(n) == n.t = "map"

Returned(v) == [exc |-> "None", val |-> v]

Raised(e) == [exc |-> e, val |-> Null]

\* obj.get(key, default): a dict method; None, str and list have no get.
DictGet(obj, key, default) ==
    IF ~IsMap(obj) THEN Raised("AttributeError")
    ELSE IF key \in DOMAIN obj.m THEN Returned(obj.m[key])
    ELSE Returned(default)

\* obj[key]: KeyError on a dict without the key, TypeError on None (not
\* subscriptable) and on a str or list (the index must be an integer).
Subscript(obj, key) ==
    IF ~IsMap(obj) THEN Raised("TypeError")
    ELSE IF key \in DOMAIN obj.m THEN Returned(obj.m[key])
    ELSE Raised("KeyError")

\* YamlConfigParser.get_data() on the file at config_path.  file.state is
\*   "missing"    open raises FileNotFoundError
\*   "unreadable" open raises another OSError (a directory, no permission)
\*   "invalid"    yaml.safe_load raises YAMLError
\*   "document"   yaml.safe_load returns file.doc (None for an empty file)
YamlGetData(file) ==
    CASE file.state = "missing" -> Returned(EmptyMap)
      [] file.state = "invalid" -> Returned(EmptyMap)
      [] file.state = "unreadable" -> Raised("PermissionError")
      [] file.state = "document" -> Returned(file.doc)

\* The records get_data logs on its two handled failures.
YamlGetDataLog(file) ==
    CASE file.state = "missing" ->
           << LogRecord("ERROR", "Error: Config file not found", "FileNotFoundError",
                        NoneText, TRUE) >>
      [] file.state = "invalid" ->
           << LogRecord("ERROR", "Error parsing YAML in config file", "YAMLError",
                        NoneText, TRUE) >>
      [] OTHER -> <<>>

\* ConfigData.common
common(config_data) == DictGet(config_data, "COMMON", EmptyMap)

db_config_fixed_label(config_data, env_var) ==
    LET section == DictGet(config_data, "DB_CONNECTION", EmptyMap)
    IN  IF section.exc # "None" THEN section
        ELSE DictGet(section.val, "localhost", EmptyMap)

\* ConfigData.db_config
db_config(config_data, env_var) ==
    LET section == DictGet(config_data, "DB_CONNECTION", EmptyMap)
    IN  IF section.exc # "None" THEN section
        ELSE DictGet(section.val, env_var, EmptyMap)

(***************************************************************************)
(* GeoJsonDBDataWriter (src/src/db/db.py).                                 *)
(*                                                                         *)
(* A feature collection handed to the writer is [some, features]; some is  *)
(* FALSE for Python None.  A table is the sequence of its rows.  An engine *)
(* is [used, disposed]: whether to_postgis ran on it and whether dispose() *)
(* was called on it.                                                       *)
(***************************************************************************)
NoCollection == [some |-> FALSE, features |-> <<>>]

Collection(features) == [some |-> TRUE, features |-> features]

Row(f) == [properties |-> f.properties, geometry |-> f.geometry]

from_features_accepts_none(feature_collection) ==
    [exc |-> "None",
     rows |-> [k \in 1..Len(feature_collection.features)
                 |-> Row(feature_collection.features[k])]]

\* gpd.GeoDataFrame.from_features: one row per feature, holding its
\* properties and its geometry; iterating None raises TypeError.
from_features(feature_collection) ==
    IF ~feature_collection.some THEN [exc |-> "TypeError", rows |-> <<>>]
    ELSE [exc |-> "None",
          rows |-> [k \in 1..Len(feature_collection.features)
                      |-> Row(feature_collection.features[k])]]

\* The parameters the connection URL is formatted from, in order.
EngineKeys == << "user", "password", "host", "port", "database" >>

RECURSIVE FirstSubscriptExc(_, _, _)
FirstSubscriptExc(obj, keys, i) ==
    IF i > Len(keys) THEN "None"
    ELSE IF Subscript(obj, keys[i]).exc # "None" THEN Subscript(obj, keys[i]).exc
    ELSE FirstSubscriptExc(obj, keys, i + 1)

\* DBDataWriter.engine: every access formats the URL and creates an engine.
engine(db_connection) == [exc |-> FirstSubscriptExc(db_connection, EngineKeys, 1)]

\* The subclasses of sqlalchemy.exc.SQLAlchemyError the database layer
\* raises: host unreachable or connection refused, table or column
\* mismatch, constraint violation.
SQLAlchemyErrors == { "OperationalError", "ProgrammingError", "IntegrityError" }

\* What to_postgis may do.
DbOutcomes == { "None" } \cup SQLAlchemyErrors

Caught_nothing(exc) == FALSE

\* "except exc.SQLAlchemyError"
Caught(exc) == exc \in SQLAlchemyErrors

to_postgis_replace(table_rows, rows) == rows

\* gdf.to_postgis(name, con, if_exists="append", index=False) when it
\* succeeds: the rows of the frame are inserted after the rows the table
\* holds.
to_postgis(table_rows, rows) == table_rows \o rows

\* GeoJsonDBDataWriter.write() when to_postgis, if reached, does outcome.
\*   failure  the exception raised inside the try block, "None" if none
\*   escaped  the exception write() raises to its caller, "None" if none
\*   rows     the rows appended to the table
\*   engines  the engines created by the call
write(db_connection, feature_collection, outcome) ==
    LET gdf == from_features(feature_collection)
        failure ==
            IF gdf.exc # "None" THEN gdf.exc
            ELSE IF engine(db_connection).exc # "None" THEN engine(db_connection).exc
            ELSE outcome
        reached == gdf.exc = "None" /\ engine(db_connection).exc = "None"
    IN  [failure |-> failure,
         escaped |-> IF failure # "None" /\ ~Caught(failure) THEN failure ELSE "None",
         rows |-> IF failure = "None" THEN gdf.rows ELSE <<>>,
         engines |->
            IF ~reached THEN <<>>
            ELSE IF failure # "None" THEN << [used |-> TRUE, disposed |-> FALSE] >>
            ELSE << [used |-> TRUE, disposed |-> FALSE],
                    [used |-> FALSE, disposed |-> TRUE] >>,
         log |->
            IF failure = "None"
            THEN << LogRecord("INFO",
                      "GeoJSON data has been successfully written to the PostGIS table.",
                      "", NoneText, TRUE) >>
            ELSE IF Caught(failure)
            THEN << LogRecord("ERROR", "Error writing GeoJSON data to the database",
                              failure, NoneText, TRUE) >>
            ELSE <<>>]

\* write_to_database of main.py: write() under "except Exception".
write_to_database(db_connection, feature_collection, outcome) ==
    LET w == write(db_connection, feature_collection, outcome)
    IN  [w EXCEPT !.log =
            IF w.escaped # "None"
            THEN w.log \o << LogRecord("ERROR", "Error writing to the database",
                                       w.escaped, NoneText, TRUE) >>
            ELSE w.log]

(***************************************************************************)
(* Inputs.                                                                 *)
(***************************************************************************)
SeqsUpTo(S, n) == UNION { [1..k -> S] : k \in 0..n }

\* Texts of <georss:point>: empty, blank, two numbers in both orders, a
\* signed number and a double blank, one number, three numbers, not a number.
PointTexts ==
    { NoneText, Text(<<" ">>),
      Text(<<"1", " ", "2">>), Text(<<"2", " ", "1">>),
      Text(<<"-", "1", "2", " ", " ", "3">>),
      Text(<<"1">>), Text(<<"1", " ", "2", " ", "3">>), Text(<<"1", " ", "x">>) }

\* What an item may lack: a child read first, a guarded child, an attribute
\* of a guarded child, an attribute, the point, the child read last.
AbsentChoices ==
    { <<"title">>, <<"gdacs:severity">>, AttrName("gdacs:severity", "unit"),
      AttrName("guid", "isPermaLink"), <<"georss:point">>, <<"gdacs:country">> }

Item(absent, point) == [absent |-> absent, title |-> Text(<<"t">>), point |-> point]

Items ==
    { Item({}, p) : p \in PointTexts }
      \cup { Item({a}, Text(<<"1", " ", "2">>)) : a \in AbsentChoices }

Document(items) == [fetch |-> "None", wellformed |-> TRUE, items |-> items]

Unreachable == [fetch |-> "ConnectionError", wellformed |-> TRUE, items |-> <<>>]

Malformed == [fetch |-> "None", wellformed |-> FALSE, items |-> <<>>]

Documents(n) == { Document(s) : s \in SeqsUpTo(Items, n) } \cup { Unreachable, Malformed }

NoDocument == Document(<<>>)

\* The keys main.py reads from the COMMON section.
CommonKeys ==
    { "webdriver", "geojson_url", "browser_download_directory_path",
      "disaster_alerts_table_name", "xml_url", "disaster_events_table_name", "src" }

FullCommon(browser) ==
    [k \in CommonKeys |-> IF k = "webdriver" THEN Str(browser) ELSE Str(k)]

Restrict(f, K) == [k \in K |-> f[k]]

\* The keys DBDataWriter.engine reads from the connection parameters.
DbKeys == { "user", "password", "host", "port", "database" }

DbParams == [k \in DbKeys |-> Str(k)]

Absent == [t |-> "absent"]

\* COMMON: no section, an empty section, the example of the specification,
\* every key, every key but one, an unsupported browser.
CommonSections ==
    { Absent, Null, EmptyMap, Map([x |-> Str("1")]),
      Map(FullCommon("Google Chrome")), Map(FullCommon("Safari")) }
      \cup { Map(Restrict(FullCommon("Google Chrome"), CommonKeys \ {k})) : k \in CommonKeys }

\* DB_CONNECTION: no section, an empty section, parameters for one label or
\* the other, partial parameters, a label without parameters.
DbSections ==
    { Absent, Null, EmptyMap,
      Map([localhost |-> Map(DbParams)]), Map([prod |-> Map(DbParams)]),
      Map([localhost |-> Map([user |-> Str("a")])]), Map([localhost |-> Null]) }

MakeDoc(c, d) ==
    Map([k \in (IF c = Absent THEN {} ELSE {"COMMON"})
               \cup (IF d = Absent THEN {} ELSE {"DB_CONNECTION"})
          |-> IF k = "COMMON" THEN c ELSE d])

File(state, doc) == [state |-> state, doc |-> doc]

ConfigFiles ==
    { File("missing", Null), File("unreadable", Null), File("invalid", Null),
      File("document", Null), File("document", Str("x")), File("document", List) }
      \cup { File("document", MakeDoc(c, d)) : c \in CommonSections, d \in DbSections }

\* The files the orchestrator is run on: the failures of the loader, the
\* complete document, and the complete document with one section changed.
OrchestratorFiles ==
    { File("missing", Null), File("unreadable", Null), File("invalid", Null),
      File("document", Null) }
      \cup { File("document", MakeDoc(c, Map([localhost |-> Map(DbParams)]))) :
                c \in CommonSections }
      \cup { File("document", MakeDoc(Map(FullCommon("Google Chrome")), d)) :
                d \in { Absent, Map([localhost |-> Null]),
                        Map([localhost |-> Map([user |-> Str("a")])]) } }

ENV == "localhost"

Envs == { "localhost", "prod" }

NotCalled == [exc |-> "NotCalled", val |-> Null]

(***************************************************************************)
(* State.                                                                  *)
(***************************************************************************)
VARIABLES
    pc,                 \* the statement of main.py the process is at
    crash,              \* the exception that ended the process, or "None"
    env_var,            \* ConfigData.env_var
    config_file,        \* the configuration file as last read
    config_data,        \* what YamlConfigParser.get_data did on it
    common_data,        \* what ConfigData.common did
    db_configuration,   \* what ConfigData.db_config did
    feed,               \* the document served to the XML crawler run on its own
    xml_result,         \* what GDACSXmlDtaCrawler.get_data did on it
    log,                \* the records logged by the running step
    iteration,          \* the pass of the "while True" loop, from 1
    driver,             \* the browser session of the running pass
    feature_collection, \* what the crawl of the running step returned
    write_result,       \* what the write of the running step did
    tables,             \* the rows of each table of the database
    engines             \* the engines created by the running step

vars ==
    << pc, crash, env_var, config_file, config_data, common_data, db_configuration,
       feed, xml_result, log, iteration, driver, feature_collection, write_result,
       tables, engines >>

\* The variables of the crawl and write steps.
stepVars == << iteration, driver, feature_collection, write_result, tables, engines >>

\* The tables the configuration names.
TableNames == { "disaster_alerts_table_name", "disaster_events_table_name" }

NoDriver == [state |-> "none", quits |-> 0]

NoWrite ==
    [called |-> FALSE, missing |-> FALSE, failure |-> "None", escaped |-> "None",
     appended |-> 0, created |-> 0]

NoResult == [exc |-> "NotCalled", features |-> <<>>, log |-> <<>>]

InitAt(p, env) ==
    /\ pc = p
    /\ crash = "None"
    /\ env_var = env
    /\ config_file = File("missing", Null)
    /\ config_data = NotCalled
    /\ common_data = NotCalled
    /\ db_configuration = NotCalled
    /\ feed = NoDocument
    /\ xml_result = NoResult
    /\ log = <<>>
    /\ iteration = 1
    /\ driver = NoDriver
    /\ feature_collection = NoCollection
    /\ write_result = NoWrite
    /\ tables = [n \in TableNames |-> <<>>]
    /\ engines = <<>>

(***************************************************************************)
(* The XML crawler on its own: one get_data() call on any document.        *)
(***************************************************************************)
XmlCrawl ==
    /\ pc = "xml_crawl"
    /\ \E doc \in Documents(MaxItems) :
          /\ feed' = doc
          /\ xml_result' = XmlGetData(doc)
          /\ log' = XmlGetData(doc).log
    /\ pc' = "xml_done"
    /\ UNCHANGED << crash, env_var, config_file, config_data, common_data, db_configuration >>
    /\ UNCHANGED stepVars

InitXml == InitAt("xml_crawl", ENV)

SpecXml == InitXml /\ [][XmlCrawl]_vars

(***************************************************************************)
(* get_config_data() of main.py, for the label in env_var, on one of the   *)
(* given files.                                                            *)
(***************************************************************************)
get_config_data(files) ==
    /\ pc = "load_config"
    /\ \E file \in files :
          LET parsed == YamlGetData(file)
              c == IF parsed.exc = "None" THEN common(parsed.val) ELSE NotCalled
              d == IF c.exc = "None" THEN db_config(parsed.val, env_var) ELSE NotCalled
              raised == IF parsed.exc # "None" THEN parsed.exc
                        ELSE IF c.exc # "None" THEN c.exc
                        ELSE IF d.exc # "None" THEN d.exc ELSE "None"
          IN  /\ config_file' = file
              /\ config_data' = parsed
              /\ common_data' = c
              /\ db_configuration' = d
              /\ log' = YamlGetDataLog(file)
              /\ crash' = raised
              /\ pc' = IF raised = "None" THEN "alerts_crawl" ELSE "terminated"
    /\ UNCHANGED << env_var, feed, xml_result >>
    /\ UNCHANGED stepVars

InitConfig == \E env \in Envs : InitAt("load_config", env)

LoadAnyConfig == get_config_data(ConfigFiles)

SpecConfig == InitConfig /\ [][LoadAnyConfig]_vars

(***************************************************************************)
(* GDACSGeoJsonDtaCrawler (src/src/data_crawler.py) and the webdriver.     *)
(***************************************************************************)
SupportedBrowsers ==
    { "Google Chrome", "Mozilla Firefox", "Microsoft Edge", "Internet Explorer" }

\* initialize_webdriver(browser_name): the session, or None with an error
\* logged when the name is not supported or the browser does not start.
initialize_webdriver(browser_name, starts) ==
    IF browser_name.t = "str" /\ browser_name.s \in SupportedBrowsers /\ starts
    THEN [driver |-> [state |-> "open", quits |-> 0], log |-> <<>>]
    ELSE [driver |-> NoDriver,
          log |-> << LogRecord("ERROR", "Error initializing webdriver",
                               IF browser_name.t = "str"
                                    /\ browser_name.s \in SupportedBrowsers
                               THEN "WebDriverException" ELSE "ValueError",
                               NoneText, TRUE) >>]

\* The browser calls of download_geojson in order, with what each raises
\* when it fails.
BrowserSteps ==
    << [call |-> "get", exc |-> "WebDriverException"],
       [call |-> "maximize_window", exc |-> "WebDriverException"],
       [call |-> "find_element", exc |-> "NoSuchElementException"],
       [call |-> "execute_script", exc |-> "JavascriptException"],
       [call |-> "until", exc |-> "TimeoutException"],
       [call |-> "click", exc |-> "ElementClickInterceptedException"] >>

\* The step at which a download fails: 0 for none.
BrowserFailures == 0..Len(BrowserSteps)

download_geojson_quit_on_return(session, failing) ==
    IF session.state = "none"
    THEN [exc |-> "AttributeError", driver |-> session]
    ELSE IF failing = 0
    THEN [exc |-> "None", driver |-> [state |-> "quit", quits |-> session.quits + 1]]
    ELSE [exc |-> BrowserSteps[failing].exc, driver |-> session]

\* download_geojson(): the calls up to the failing one, then driver.quit()
\* in the finally block.  Without a session the first call raises
\* AttributeError and so does quit().
download_geojson(session, failing) ==
    IF session.state = "none"
    THEN [exc |-> "AttributeError", driver |-> session]
    ELSE [exc |-> IF failing = 0 THEN "None" ELSE BrowserSteps[failing].exc,
          driver |-> [state |-> "quit", quits |-> session.quits + 1]]

\* GDACSGeoJsonDtaCrawler.get_data(): the newest *.geojson file of the
\* download directory, parsed.  download is what the directory holds: no
\* such file (max() of an empty list raises ValueError), a newest file that
\* is not JSON, or a newest file holding a collection.
GeoJsonGetData(session, failing, download) ==
    LET d == download_geojson(session, failing)
    IN  IF d.exc # "None"
        THEN [exc |-> d.exc, driver |-> d.driver, collection |-> NoCollection]
        ELSE IF download.kind = "no_file"
        THEN [exc |-> "ValueError", driver |-> d.driver, collection |-> NoCollection]
        ELSE IF download.kind = "invalid_json"
        THEN [exc |-> "JSONDecodeError", driver |-> d.driver, collection |-> NoCollection]
        ELSE [exc |-> "None", driver |-> d.driver, collection |-> download.collection]

\* get_alert_feature_collection of main.py: get_data() under
\* "except Exception", which logs and returns None.
get_alert_feature_collection(session, failing, download) ==
    LET g == GeoJsonGetData(session, failing, download)
    IN  [exc |-> g.exc, driver |-> g.driver, collection |-> g.collection,
         log |-> IF g.exc = "None" THEN <<>>
                 ELSE << LogRecord("ERROR", "Error getting alert feature collection",
                                   g.exc, NoneText, TRUE) >>]

\* get_disaster_event_feature_collection of main.py.
get_disaster_event_feature_collection(doc) ==
    LET x == XmlGetData(doc)
    IN  [exc |-> x.exc,
         collection |-> IF x.exc = "None" THEN Collection(x.features) ELSE NoCollection,
         log |-> IF x.exc = "None" THEN x.log
                 ELSE x.log \o << LogRecord("ERROR",
                                     "Error getting disaster event feature collection",
                                     x.exc, NoneText, TRUE) >>]

\* Features of the downloaded export.
AlertFeature(n) == Feature(n, [eventid |-> n], Point(n, n))

MaxAlertFeatures == 1

\* What the download directory may hold after the export.
Downloads ==
    { [kind |-> "no_file", collection |-> NoCollection],
      [kind |-> "invalid_json", collection |-> NoCollection] }
      \cup { [kind |-> "collection",
               collection |-> Collection([i \in 1..k |-> AlertFeature(i)])] :
                 k \in 0..MaxAlertFeatures }

\* items of a feed document served to the orchestrator
MaxFeedItems == 1

\* The items of those documents: with a point, without, with half a point,
\* without a title.
FeedItems ==
    { Item({}, Text(<<"1", " ", "2">>)), Item({}, NoneText), Item({}, Text(<<"1">>)),
      Item({<<"title">>}, Text(<<"1", " ", "2">>)) }

FeedDocuments ==
    { Document(s) : s \in SeqsUpTo(FeedItems, MaxFeedItems) } \cup { Unreachable, Malformed }

\* passes of the orchestrator's loop
MaxIterations == 2

Info(msg) == LogRecord("INFO", msg, "", NoneText, TRUE)

Banner == Info("**************************************************")

(***************************************************************************)
(* The orchestrator (src/src/main.py).                                     *)
(***************************************************************************)
\* An unhandled exception ends the process.
Terminate(exc) ==
    /\ pc' = "terminated"
    /\ crash' = exc

\* get_and_write_alerts_data up to the crawl: the browser is read from the
\* settings and started, then the crawl's arguments are read and the alerts
\* are crawled.
CrawlAlerts ==
    /\ pc = "alerts_crawl"
    /\ \E starts \in BOOLEAN, failing \in BrowserFailures, download \in Downloads :
          LET name == Subscript(common_data.val, "webdriver")
              init == initialize_webdriver(name.val, starts)
              args == FirstSubscriptExc(common_data.val,
                         << "geojson_url", "browser_download_directory_path" >>, 1)
              got == get_alert_feature_collection(init.driver, failing, download)
          IN  IF name.exc # "None"
              THEN /\ Terminate(name.exc)
                   /\ log' = << Banner >>
                   /\ driver' = NoDriver
                   /\ feature_collection' = NoCollection
              ELSE IF args # "None"
              THEN /\ Terminate(args)
                   /\ log' = << Banner >> \o init.log
                               \o << Info("Getting alert feature_collection...") >>
                   /\ driver' = init.driver
                   /\ feature_collection' = NoCollection
              ELSE /\ pc' = "alerts_write"
                   /\ crash' = "None"
                   /\ log' = << Banner >> \o init.log
                               \o << Info("Getting alert feature_collection...") >>
                               \o got.log
                   /\ driver' = got.driver
                   /\ feature_collection' = got.collection
    /\ write_result' = NoWrite
    /\ engines' = <<>>
    /\ UNCHANGED << env_var, config_file, config_data, common_data, db_configuration,
                    feed, xml_result, iteration, tables >>

\* The second half of both steps: the table name and the CRS are read from
\* the settings and the collection is written.
WriteStep(table_key, writing_msg, next) ==
    \E outcome \in DbOutcomes :
        LET args == FirstSubscriptExc(common_data.val, << table_key, "src" >>, 1)
            w == write_to_database(db_configuration.val, feature_collection, outcome)
            table == common_data.val.m[table_key].s
        IN  IF args # "None"
            THEN /\ Terminate(args)
                 /\ log' = Append(log, Info(writing_msg))
                 /\ UNCHANGED << write_result, tables, engines >>
            ELSE /\ pc' = next
                 /\ crash' = "None"
                 /\ log' = Append(log, Info(writing_msg)) \o w.log
                 /\ write_result' =
                        [called |-> TRUE, missing |-> ~feature_collection.some,
                         failure |-> w.failure, escaped |-> w.escaped,
                         appended |-> Len(w.rows), created |-> Len(w.engines)]
                 /\ tables' = [tables EXCEPT ![table] = to_postgis(@, w.rows)]
                 /\ engines' = w.engines

WriteAlerts ==
    /\ pc = "alerts_write"
    /\ WriteStep("disaster_alerts_table_name",
                 "Writing alert feature_collection to DB...", "events_crawl")
    /\ UNCHANGED << env_var, config_file, config_data, common_data, db_configuration,
                    feed, xml_result, iteration, driver, feature_collection >>

\* get_and_write_disaster_event_data up to the crawl.
CrawlEvents ==
    /\ pc = "events_crawl"
    /\ \E doc \in FeedDocuments :
          LET url == Subscript(common_data.val, "xml_url")
              got == get_disaster_event_feature_collection(doc)
              head == << Banner, Info("Getting disaster event feature collection...") >>
          IN  IF url.exc # "None"
              THEN /\ Terminate(url.exc)
                   /\ log' = head
                   /\ feature_collection' = NoCollection
              ELSE /\ pc' = "events_write"
                   /\ crash' = "None"
                   /\ log' = head \o got.log
                   /\ feature_collection' = got.collection
    /\ write_result' = NoWrite
    /\ engines' = <<>>
    /\ UNCHANGED << env_var, config_file, config_data, common_data, db_configuration,
                    feed, xml_result, iteration, driver, tables >>

WriteEvents ==
    /\ pc = "events_write"
    /\ WriteStep("disaster_events_table_name",
                 "Writing disaster event feature collection to DB...", "sleep")
    /\ UNCHANGED << env_var, config_file, config_data, common_data, db_configuration,
                    feed, xml_result, iteration, driver, feature_collection >>

\* time.sleep(86400), then the next pass of the loop.  The pass leaves
\* nothing behind but the database: its settings, its session, its
\* collections and its writers were locals of the calls that returned.
Sleep ==
    /\ pc = "sleep"
    /\ iteration < MaxIterations
    /\ pc' = "load_config"
    /\ iteration' = iteration + 1
    /\ config_file' = File("missing", Null)
    /\ config_data' = NotCalled
    /\ common_data' = NotCalled
    /\ db_configuration' = NotCalled
    /\ log' = <<>>
    /\ driver' = NoDriver
    /\ feature_collection' = NoCollection
    /\ write_result' = NoWrite
    /\ engines' = <<>>
    /\ UNCHANGED << crash, env_var, feed, xml_result, tables >>

Init == InitAt("load_config", ENV)

LoadConfig == get_config_data(OrchestratorFiles)

Next ==
    \/ LoadConfig
    \/ CrawlAlerts
    \/ WriteAlerts
    \/ CrawlEvents
    \/ WriteEvents
    \/ Sleep

Spec == Init /\ [][Next]_vars

(***************************************************************************)
(* Properties of the XML crawler, under SpecXml.                           *)
(***************************************************************************)
Crawled == pc = "xml_done" /\ feed.fetch = "None" /\ feed.wellformed

ReturnedCollection == Crawled /\ xml_result.exc = "None"

Positions == 1..Len(feed.items)

\* The item's point field is a string of exactly two numbers.
HasParsablePoint(it) ==
    /\ it.point.some
    /\ Len(Split(it.point.s)) = 2
    /\ \A k \in 1..2 : IsNumber(Split(it.point.s)[k])

\* The item has every child element and attribute the crawler reads, the
\* point apart.
HasRequiredFields(it) == it.absent \subseteq { <<"georss:point">> }

HasPointElement(it) == <<"georss:point">> \notin it.absent

\* C1: for every feed document in which each item carries all required
\* fields, get_data returns a collection with as many features as there are
\* items with a parsable two-number point field.
C1_FeatureCount ==
    (Crawled /\ \A i \in Positions : feed.items[i].absent = {})
      => /\ xml_result.exc = "None"
         /\ Len(xml_result.features)
              = Cardinality({ i \in Positions : HasParsablePoint(feed.items[i]) })

\* The items of the document that get_data turned into features.
EmittedItems == SelectSeq(feed.items, LAMBDA it : Truthy(it.point))

\* C2: in every returned collection the ids are 1, 2, ..., n in the order of
\* the features, and the features are the emitted items in document order;
\* skipped items consume no id.
C2_DenseIds ==
    ReturnedCollection
      => /\ Len(xml_result.features) = Len(EmittedItems)
         /\ \A k \in 1..Len(xml_result.features) :
               /\ xml_result.features[k].id = k
               /\ xml_result.features[k].properties.Title = EmittedItems[k].title
               /\ xml_result.features[k].properties.GeoRSSPoint = EmittedItems[k].point

\* A returned collection of two features whose items stand on either side of
\* a skipped item.
C2_Witness ==
    /\ ReturnedCollection
    /\ Len(xml_result.features) >= 2
    /\ \E i, j, k \in Positions :
          /\ i < j /\ j < k
          /\ Truthy(feed.items[i].point)
          /\ ~Truthy(feed.items[j].point)
          /\ Truthy(feed.items[k].point)

\* C3: an item whose point field is absent, empty or not a coordinate pair is
\* skipped with a warning naming it; the other items are processed and the
\* call returns a collection whose features all have a geometry.
C3_SkipWithWarning ==
    (Crawled /\ \A i \in Positions : HasRequiredFields(feed.items[i]))
      => /\ xml_result.exc = "None"
         /\ Len(xml_result.features)
              = Cardinality({ i \in Positions :
                                /\ HasPointElement(feed.items[i])
                                /\ HasParsablePoint(feed.items[i]) })
         /\ \A i \in Positions :
               ~(HasPointElement(feed.items[i]) /\ HasParsablePoint(feed.items[i]))
                 => \E n \in 1..Len(xml_result.log) :
                       /\ xml_result.log[n].level = "WARNING"
                       /\ xml_result.log[n].item = feed.items[i].title
                       /\ xml_result.log[n].rendered

\* C4: if any item lacks a required field the whole call fails and returns
\* no collection, whatever the other items are.
C4_MalformedItemAborts ==
    (Crawled /\ \E i \in Positions : ~HasRequiredFields(feed.items[i]))
      => /\ xml_result.exc \in { "AttributeError", "KeyError", "ValueError" }
         /\ xml_result.features = <<>>

\* A failed call on a document whose malformed item stands between two
\* items that are complete and have a parsable point.
C4_Witness ==
    /\ Crawled
    /\ xml_result.exc = "AttributeError"
    /\ \E i, j, k \in Positions :
          /\ i < j /\ j < k
          /\ feed.items[i].absent = {} /\ HasParsablePoint(feed.items[i])
          /\ <<"title">> \in feed.items[j].absent
          /\ feed.items[k].absent = {} /\ HasParsablePoint(feed.items[k])

\* C5: every emitted feature has a Point geometry (longitude, latitude),
\* where the point string is "latitude longitude".
C5_LongitudeFirst ==
    ReturnedCollection
      => \A k \in 1..Len(xml_result.features) :
            LET f == xml_result.features[k]
                toks == Split(f.properties.GeoRSSPoint.s)
            IN  /\ f.geometry.type = "Point"
                /\ Len(f.geometry.coordinates) = 2
                /\ f.geometry.coordinates[1] = Float(toks[2])
                /\ f.geometry.coordinates[2] = Float(toks[1])

\* A returned feature whose point string is "-12  3": longitude 3,
\* latitude -12.
C5_Witness ==
    /\ ReturnedCollection
    /\ \E k \in 1..Len(xml_result.features) :
          /\ xml_result.features[k].properties.GeoRSSPoint
               = Text(<<"-", "1", "2", " ", " ", "3">>)
          /\ xml_result.features[k].geometry.coordinates = <<3, 0 - 12>>

(***************************************************************************)
(* Properties of the configuration loader, under SpecConfig.               *)
(***************************************************************************)
ConfigLoaded == pc # "load_config"

\* C6: YamlConfigParser.get_data never raises and always returns a mapping:
\* the empty mapping when the file is missing or cannot be parsed, the
\* parsed document otherwise.
C6_AlwaysMapping ==
    ConfigLoaded
      => /\ config_data.exc = "None"
         /\ IsMap(config_data.val)
         /\ config_file.state \in { "missing", "invalid" } => config_data.val = EmptyMap
         /\ config_file.state = "document" => config_data.val = config_file.doc

\* The loader returned a mapping, on which both accessors were evaluated.
RawMapping == ConfigLoaded /\ config_data.exc = "None" /\ IsMap(config_data.val)

Raw == config_data.val.m

ErrorLogged(msg, exc) ==
    \E n \in 1..Len(log) :
        /\ log[n].level = "ERROR"
        /\ log[n].msg = msg
        /\ log[n].exc = exc

\* C7: when the loader yields the empty mapping because the file is missing
\* or unparsable, the pass goes on with every setting absent and the
\* process is not ended by an unhandled failure.
C7_ToleratesEmptyConfig ==
    (config_file.state \in { "missing", "invalid" } /\ config_data = Returned(EmptyMap))
      => pc # "terminated"

CrawlFailed == pc \in { "alerts_write", "events_write" } /\ ~feature_collection.some

CrawlErrorLogged ==
    \E n \in 1..Len(log) :
        /\ log[n].level = "ERROR"
        /\ log[n].msg \in { "Error getting alert feature collection",
                            "Error getting disaster event feature collection" }
        /\ log[n].exc # ""

Follows(p) ==
    CASE p = "load_config" -> "alerts_crawl"
      [] p = "alerts_crawl" -> "alerts_write"
      [] p = "alerts_write" -> "events_crawl"
      [] p = "events_crawl" -> "events_write"
      [] p = "events_write" -> "sleep"
      [] p = "sleep" -> "load_config"
      [] OTHER -> p

\* C11: the loop runs forever in the fixed order: every step taken leads to
\* the step that follows it in the order load the configuration, crawl the
\* alerts, write them, crawl the events, write them, sleep, and the sleep
\* leads to the load of the next pass; the pass number changes at the sleep
\* only, so no step runs twice in a pass and the loop never ends.
C11_FixedOrderForever ==
    [][/\ pc' = Follows(pc)
       /\ iteration' = IF pc = "sleep" THEN iteration + 1 ELSE iteration]_vars

\* What does hold of the order: a step leads to the step that follows it or
\* ends the process, and the pass number changes at the sleep only.
C11_FixedOrderUntilTerminated ==
    [][/\ pc' \in { Follows(pc), "terminated" }
       /\ pc = "sleep" => pc' = "load_config"
       /\ iteration' = IF pc = "sleep" THEN iteration + 1 ELSE iteration]_vars

(***************************************************************************)
(* The rows of the tables, under Spec.                                     *)
(***************************************************************************)
\* The table a write step writes to, as the settings of the pass name it.
TableOf(p) ==
    IF p = "alerts_write" THEN "disaster_alerts_table_name"
    ELSE "disaster_events_table_name"

\* The step taken is a write that succeeded.
WriteSucceeds ==
    /\ pc \in { "alerts_write", "events_write" }
    /\ write_result'.called
    /\ write_result'.failure = "None"

\* The rows of the collection the running step crawled.
CrawledRows ==
    [k \in 1..Len(feature_collection.features) |-> Row(feature_collection.features[k])]

IsPrefix(s, t) == Len(s) <= Len(t) /\ \A k \in 1..Len(s) : t[k] = s[k]

Count(row, rows) == Cardinality({ k \in 1..Len(rows) : rows[k] = row })

\* C12: the writer only appends.  No step replaces, removes or reorders a
\* row of any table; a successful write of a collection of n features adds
\* its n rows after the rows of the named table and leaves the other table
\* alone; and when the table holds exactly the rows of an earlier run of the
\* same collection, the write leaves each of them in the table twice and the
\* row count doubled.
C12_WriterOnlyAppends ==
    [][/\ \A t \in TableNames : IsPrefix(tables[t], tables'[t])
       /\ WriteSucceeds
            => /\ tables'[TableOf(pc)] = tables[TableOf(pc)] \o CrawledRows
               /\ Len(tables'[TableOf(pc)])
                    = Len(tables[TableOf(pc)]) + Len(feature_collection.features)
               /\ write_result'.appended = Len(feature_collection.features)
               /\ \A t \in TableNames \ { TableOf(pc) } : tables'[t] = tables[t]
       /\ (WriteSucceeds /\ tables[TableOf(pc)] = CrawledRows)
            => /\ Len(tables'[TableOf(pc)]) = 2 * Len(tables[TableOf(pc)])
               /\ \A k \in 1..Len(CrawledRows) :
                     Count(CrawledRows[k], tables'[TableOf(pc)])
                       = 2 * Count(CrawledRows[k], tables[TableOf(pc)])]_vars

\* The second pass has written the events of an unchanged feed of one item:
\* the events table holds the row of the first pass and the same row again.
C12_Witness ==
    /\ iteration = 2
    /\ pc = "sleep"
    /\ write_result.called
    /\ write_result.failure = "None"
    /\ write_result.appended = 1
    /\ Len(tables["disaster_events_table_name"]) = 2
    /\ tables["disaster_events_table_name"][1] = tables["disaster_events_table_name"][2]
    /\ tables["disaster_events_table_name"][2] = CrawledRows[1]

(***************************************************************************)
(* The browser session of a pass, under Spec.                              *)
(***************************************************************************)
\* The alerts crawl of the running pass has called download_geojson and the
\* call is over.
DownloadOver == pc \in { "alerts_write", "events_crawl", "events_write", "sleep" }

\* The download of the running step failed at a browser call.
BrowserCallFailed ==
    \E k \in 1..Len(BrowserSteps) :
        ErrorLogged("Error getting alert feature collection", BrowserSteps[k].exc)

\* C13: once download_geojson has returned or failed, the session it ran in
\* has been quit exactly once, whichever browser call failed (navigation,
\* maximising, the two calls of the scroll, the wait, the click) and also
\* when none did; from then on the session is never touched again: it stays
\* as it is until the pass that owned it is over.
C13_SessionQuitOnce ==
    /\ []((DownloadOver /\ driver.state # "none")
            => /\ driver.state = "quit"
               /\ driver.quits = 1)
    /\ []((pc = "alerts_write" /\ BrowserCallFailed)
            => driver = [state |-> "quit", quits |-> 1])
    /\ [][driver.state = "quit"
            => \/ driver' = driver
               \/ pc = "sleep" /\ driver' = NoDriver]_vars

\* The wait for the clickable button timed out in a started browser: the
\* crawl has failed, nothing was downloaded and the session has been quit.
C13_Witness ==
    /\ pc = "alerts_write"
    /\ ErrorLogged("Error getting alert feature collection", "TimeoutException")
    /\ ~feature_collection.some
    /\ driver.state = "quit"
    /\ driver.quits = 1

(***************************************************************************)
(* The engines of a write, under Spec.                                     *)
(***************************************************************************)
\* C14: when write() is over, every engine created during the call has been
\* disposed, whether the write succeeded or failed; none is left to a later
\* call.
C14_EveryEngineDisposed ==
    write_result.called
      => /\ write_result.created = Len(engines)
         /\ \A k \in 1..Len(engines) : engines[k].disposed

\* What does hold of the engines: a write that reaches the database creates
\* one engine for to_postgis and never disposes it; on success it creates a
\* second one, which is disposed unused; no call uses the engine of another.
C14_UsedEngineNeverDisposed ==
    write_result.called
      => /\ write_result.created = Len(engines)
         /\ \A k \in 1..Len(engines) : engines[k].used = ~engines[k].disposed
         /\ Len(engines) =
              (IF write_result.failure = "None" THEN 2
               ELSE IF write_result.failure \in SQLAlchemyErrors THEN 1 ELSE 0)

====
